---- MODULE Spec2Model ----
(***************************************************************************)
(* Model of GoldForecastApp (src/unnamed/part_000): source fallback in     *)
(* loadData, payload normalisation in processLoadedData, the synthetic     *)
(* generators, updateUI and the refresh tick.                              *)
(*                                                                         *)
(* Numbers.  Prices are integers in cents, confidence is in hundredths of  *)
(* a percent, multiplicative factors are in units of 1e-5.  Dates are day  *)
(* numbers (an ISO date string orders like its day number); date 0 stands  *)
(* for a missing or empty date, which JavaScript treats as falsy.          *)
(*                                                                         *)
(* Math.random() is a generator whose state is the variable rng; the       *)
(* seed is chosen freely in Init, so every handler is a function of the    *)
(* state, of its input and of rng.                                         *)
(***************************************************************************)
EXTENDS Integers, Sequences, FiniteSets, TLC

\* ---------------------------------------------------------------- bounds
MaxHistLen == 2      \* longest historical_data array of a payload
MaxTicks == 2        \* refresh ticks explored after the initial load
MaxClicks == 1       \* clicks on the chart buttons explored
RngMod == 16         \* number of states (and of levels) of Math.random()
MaxSeed == 0         \* the generator starts in one of the states 0..MaxSeed
MaxPayloadDate == 2  \* payload dates are the days 1..MaxPayloadDate
Today == 200         \* day number of "now" when the page is opened
LongHistLen == 32    \* length of the long history, more than the backtest window

\* ----------------------------------------------------- program constants
Sources == <<"web_data", "latest_forecast", "sample_data">>
NumSources == Len(Sources)
DefaultCurrentPrice == 2000 * 100
DefaultConfidence == 90 * 100
SampleBasePrice == 2000 * 100
SampleDays == 90
HistoryCap == 90
BacktestWindow == 30
ForecastDays == 7
DefaultChartDays == 7
RefreshDefaultDays == 30

\* ------------------------------------------------------------ arithmetic
Abs(a) == IF a >= 0 THEN a ELSE -a

\* a / b rounded toward zero, b # 0
TruncDiv(a, b) ==
    LET q == Abs(a) \div Abs(b) IN IF (a >= 0) = (b > 0) THEN q ELSE -q

\* p * (1 + f), f in units of 1e-5
Scaled(p, f) == p + TruncDiv(p * f, 100000)

\* ---------------------------------------------------------- Math.random
\* the generator steps through its RngMod states; a draw u stands for the
\* value u / RngMod of Math.random()
NextRng(s) == (s + 7) % RngMod

\* the state after i calls, which is also the i-th draw
Draw(s, i) == (s + 7 * i) % RngMod

\* the draws of the next calls, indexed from 1
DrawsFrom(s) == [i \in 1..(4 * (SampleDays + 1)) |-> Draw(s, i)]

\* (Math.random() - 0.5) * width, for the draw u, width in units of 1e-5
Centered(u, width) == TruncDiv((2 * u - RngMod) * width, 2 * RngMod)

\* Math.random() * width
Uniform(u, width) == (u * width) \div RngMod

\* ------------------------------------------------------ JavaScript values
Undef == [k |-> "undef", v |-> 0]
Null == [k |-> "null", v |-> 0]
Str == [k |-> "str", v |-> 0]      \* a string that is not a number
Num(n) == [k |-> "num", v |-> n]

Nullish(x) == x.k \in {"undef", "null"}

Truthy(x) == (x.k = "num" /\ x.v # 0) \/ x.k = "str"

\* Number(x): nan marks NaN
ToNumber(x) ==
    CASE x.k = "num" -> [nan |-> FALSE, v |-> x.v]
      [] x.k = "null" -> [nan |-> FALSE, v |-> 0]
      [] OTHER -> [nan |-> TRUE, v |-> 0]

\* Number(x) || d
NumberOr(x, d) ==
    LET n == ToNumber(x) IN IF n.nan \/ n.v = 0 THEN d ELSE n.v

\* a ?? b
Coalesce(a, b) == IF Nullish(a) THEN b ELSE a

\* ------------------------------------------- arithmetic on number values
\* a number value is Num(n), NaN or an infinity with its sign
NaN == [k |-> "nan", v |-> 0]
Inf(s) == [k |-> "inf", v |-> s]

Sign(n) == IF n < 0 THEN -1 ELSE 1

\* typeof x === "number"
IsNumber(x) == x.k \in {"num", "nan", "inf"}

\* the number that an operand of an arithmetic operator converts to
toNum(x) ==
    CASE x.k = "num" -> x
      [] x.k = "null" -> Num(0)
      [] x.k = "inf" -> x
      [] OTHER -> NaN

\* a + b
jsAdd(a, b) ==
    LET x == toNum(a)
        y == toNum(b)
    IN CASE x.k = "nan" \/ y.k = "nan" -> NaN
         [] x.k = "inf" /\ y.k = "inf" -> IF x.v = y.v THEN x ELSE NaN
         [] x.k = "inf" -> x
         [] y.k = "inf" -> y
         [] OTHER -> Num(x.v + y.v)

\* -a
jsNeg(a) ==
    LET x == toNum(a)
    IN CASE x.k = "nan" -> NaN
         [] x.k = "inf" -> Inf(-x.v)
         [] OTHER -> Num(-x.v)

\* Math.abs(a)
jsAbs(a) ==
    LET x == toNum(a)
    IN CASE x.k = "nan" -> NaN
         [] x.k = "inf" -> Inf(1)
         [] OTHER -> Num(Abs(x.v))

\* a / b * scale for a scale > 0 (scale 1 is the plain quotient)
jsDiv(a, b, scale) ==
    LET x == toNum(a)
        y == toNum(b)
    IN CASE x.k = "nan" \/ y.k = "nan" -> NaN
         [] x.k = "inf" /\ y.k = "inf" -> NaN
         [] x.k = "inf" -> Inf(x.v * Sign(y.v))
         [] y.k = "inf" -> Num(0)
         [] y.v = 0 -> IF x.v = 0 THEN NaN ELSE Inf(Sign(x.v))
         [] OTHER -> Num(TruncDiv(x.v * scale, y.v))

\* Math.max(0, a)
jsMax0(a) ==
    LET x == toNum(a)
    IN CASE x.k = "nan" -> NaN
         [] x.k = "inf" -> IF x.v > 0 THEN x ELSE Num(0)
         [] OTHER -> IF x.v > 0 THEN x ELSE Num(0)

\* ---------------------------------------------------------------- slices
\* seq.slice(-n), n >= 1
LastN(seq, n) == IF Len(seq) <= n THEN seq ELSE SubSeq(seq, Len(seq) - n + 1, Len(seq))

RECURSIVE SumFrom(_, _, _, _)
\* the reduce callback applied from entry n on: sum is the value carried so
\* far (a number), field is "error" or "errorPercent"
SumFrom(seq, field, n, sum) ==
    IF n > Len(seq) \/ ~IsNumber(sum) THEN sum
    ELSE SumFrom(seq, field, n + 1,
                 jsAdd(sum, IF field = "error" THEN seq[n].error
                            ELSE seq[n].errorPercent))

\* seq.reduce((sum, d) => sum + d[field], 0)
SumField(seq, field) == SumFrom(seq, field, 1, Num(0))

\* ------------------------------------------------ processLoadedData parts
\* the coercion without the default: Number(data.current_price || 0)
normalizeCurrentPrice_noDefault(cp) ==
    LET n == ToNumber(IF Truthy(cp) THEN cp ELSE Num(0)) IN IF n.nan THEN 0 ELSE n.v

\* Number(data.current_price || 0) || 2000
normalizeCurrentPrice(cp) ==
    NumberOr(IF Truthy(cp) THEN cp ELSE Num(0), DefaultCurrentPrice)

\* the chain without the capitalised name: d.price ?? d.close ?? d.c
rawPrice_noClose(d) == Coalesce(Coalesce(d.price, d.close), d.c)

\* d.price ?? d.close ?? d.Close ?? d.c
rawPrice(d) == Coalesce(Coalesce(Coalesce(d.price, d.close), d.Close), d.c)

\* the object built by the map callback for one raw entry
normalizeEntry(d) ==
    [date |-> d.date, price |-> NumberOr(rawPrice(d), 0), volume |-> 0]

\* the filter callback: x.date && x.price
keepEntry(x) == x.date # 0 /\ x.price # 0

\* data.historical_data || data.gold_price?.data || []
rawHistoryOf(data) ==
    IF data.historical_data.k # "undef" THEN data.historical_data
    ELSE IF data.gold_price_data.k # "undef" THEN data.gold_price_data
    ELSE [k |-> "arr", a |-> <<>>]

\* rawHistory.map(...) throws a TypeError on a null entry (d.date of null)
\* and when rawHistory is not an array
historyThrows(raw) ==
    raw.k # "arr" \/ \E i \in 1..Len(raw.a) : raw.a[i].isNull

normalizeHistory(raw) ==
    SelectSeq([i \in 1..Len(raw.a) |-> normalizeEntry(raw.a[i])], keepEntry)

\* ----------------------------------------------- processBacktestingData
\* the entry pushed for data.evaluation
evaluationRecord(e) ==
    [date |-> e.date, actual |-> e.today_actual, predicted |-> e.yesterday_pred,
     error |-> jsAbs(jsAdd(e.today_actual, jsNeg(e.yesterday_pred))),
     errorPercent |-> jsDiv(jsAbs(jsAdd(e.today_actual, jsNeg(e.yesterday_pred))),
                            e.today_actual, 10000),
     mae |-> e.mae, mape |-> e.mape]

\* the record pushed by the forEach callback for window index i > 1, given
\* the records pushed so far and the draw of Math.random()
syntheticRecord(window, i, acc, u) ==
    LET actual == window[i].price
        predicted == Scaled(window[i - 1].price, Centered(u, 2000))
        error == Abs(actual - predicted)
        errorPercent == TruncDiv(error * 10000, actual)
    IN [date |-> window[i].date, actual |-> Num(actual), predicted |-> Num(predicted),
        error |-> Num(error), errorPercent |-> Num(errorPercent),
        mae |-> IF Len(acc) > 0
                THEN jsDiv(jsAdd(SumField(acc, "error"), Num(error)),
                           Num(Len(acc) + 1), 1)
                ELSE Num(error),
        mape |-> IF Len(acc) > 0
                 THEN jsDiv(jsAdd(SumField(acc, "errorPercent"), Num(errorPercent)),
                            Num(Len(acc) + 1), 1)
                 ELSE Num(errorPercent)]

RECURSIVE syntheticBacktest(_, _, _, _, _)
\* historicalData.forEach over the window from index i on; the k-th record
\* pushed uses draws[from + k]; the series holds at most one record per
\* window point (the evaluation record and one for each point but the first)
syntheticBacktest(window, i, acc, draws, from) ==
    IF i > Len(window) \/ Len(acc) > Len(window) THEN acc
    ELSE IF i = 1 THEN syntheticBacktest(window, 2, acc, draws, from)
    ELSE syntheticBacktest(window, i + 1,
             Append(acc, syntheticRecord(window, i, acc, draws[from + i - 1])),
             draws, from)

\* number of Math.random() calls of processBacktestingData
backtestDraws(history) ==
    LET n == Len(LastN(history, BacktestWindow)) IN IF n > 0 THEN n - 1 ELSE 0

\* the reconstruction over the whole history, without slice(-30)
processBacktestingData_wholeHistory(history, data, draws, from) ==
    syntheticBacktest(history, 1,
        IF data.evaluation.present THEN <<evaluationRecord(data.evaluation)>> ELSE <<>>,
        draws, from)

\* this.backtestingData after processBacktestingData(data); draws[from + 1]
\* is the first unused draw
processBacktestingData(history, data, draws, from) ==
    syntheticBacktest(LastN(history, BacktestWindow), 1,
        IF data.evaluation.present THEN <<evaluationRecord(data.evaluation)>> ELSE <<>>,
        draws, from)

\* ---------------------------------------------------- generatePredictions
RECURSIVE weekForecast(_, _, _, _, _)
\* the loop "for (let i = 1; i <= 7; i++)": currentPred is the running
\* prediction before iteration i, draws[from + i] the draw of iteration i
weekForecast(currentPred, i, now, draws, from) ==
    IF i > ForecastDays THEN <<>>
    ELSE LET next == Scaled(currentPred, Centered(draws[from + i], 1500))
         IN <<[date |-> now + i, price |-> next]>>
            \o weekForecast(next, i + 1, now, draws, from)

\* this.predictions after generatePredictions(); uses draws[from+1..from+12]
generatePredictions(currentPrice, now, draws, from) ==
    LET today == [biGRU |-> Scaled(currentPrice, Centered(draws[from + 1], 1000)),
                  tcn |-> Scaled(currentPrice, Centered(draws[from + 2], 1000)),
                  transformer |-> Scaled(currentPrice, Centered(draws[from + 3], 1000)),
                  ensemble |-> Scaled(currentPrice, Centered(draws[from + 4], 800))]
    IN [today |-> today,
        week |-> weekForecast(today.ensemble, 1, now, draws, from + 5),
        confidence |-> 85 * 100 + Uniform(draws[from + 5], 10 * 100)]

PredictionDraws == 5 + ForecastDays

\* ----------------------------------------------------- generateSampleData
RECURSIVE sampleHistory(_, _, _)
\* the loop "for (let i = days; i >= 0; i--)" once acc has been pushed:
\* the next iteration is i = days - acc.length and uses two draws
\* (randomChange, volume)
sampleHistory(acc, now, draws) ==
    LET j == Len(acc)
        i == SampleDays - j
    IN IF i < 0 THEN acc
       ELSE LET trend == -10 * i
                randomChange == Centered(draws[2 * j + 1], 2000)
                price == IF i = SampleDays THEN SampleBasePrice
                         ELSE Scaled(acc[j].price, trend + randomChange)
            IN sampleHistory(
                   Append(acc, [date |-> now - i, price |-> price,
                                volume |-> Uniform(draws[2 * j + 2], 100000) + 50000]),
                   now, draws)

SampleDraws == 2 * (SampleDays + 1) + PredictionDraws

\* generateSampleData with the loop "for (let i = days; i > 0; i--)"
generateSampleData_noToday(app, now, draws) ==
    LET hist == SubSeq(sampleHistory(<<>>, now, draws), 1, SampleDays)
        price == hist[Len(hist)].price
    IN [app EXCEPT !.historicalData = hist,
                   !.currentPrice = price,
                   !.predictions = generatePredictions(price, now, draws,
                                                       2 * (SampleDays + 1))]

\* the fields assigned by generateSampleData(); the other fields are kept
generateSampleData(app, now, draws) ==
    LET hist == sampleHistory(<<>>, now, draws)
        price == hist[Len(hist)].price
    IN [app EXCEPT !.historicalData = hist,
                   !.currentPrice = price,
                   !.predictions = generatePredictions(price, now, draws,
                                                       2 * (SampleDays + 1))]

\* ------------------------------------------------------ processLoadedData
\* today's predictions: Number(preds[0]) for every model with a non-empty array
todayOf(models) ==
    [m \in {k \in DOMAIN models : Len(models[k]) > 0} |-> models[m][1]]

\* the filter callback p => p.price !== null (0 stands for null here:
\* Number(x) || null is null exactly when Number(x) is 0 or NaN)
keepWeek(p) == p.price # 0

\* the map over dates without the filter
weekOf_noFilter(dates, models) ==
    LET ensemble == IF "ensemble" \in DOMAIN models THEN models["ensemble"] ELSE <<>>
    IN [idx \in 1..Len(dates) |->
           [date |-> dates[idx],
            price |-> IF idx <= Len(ensemble) THEN ensemble[idx] ELSE 0]]

\* dates.map((date, idx) => ({date, price: Number(ensemble[idx]) || null}))
\*      .filter(p => p.price !== null)
weekOf(dates, models) ==
    LET ensemble == IF "ensemble" \in DOMAIN models THEN models["ensemble"] ELSE <<>>
    IN SelectSeq([idx \in 1..Len(dates) |->
                     [date |-> dates[idx],
                      price |-> IF idx <= Len(ensemble) THEN ensemble[idx] ELSE 0]],
                 keepWeek)

\* Number(data.confidence.ensemble.avg_confidence) || 90 when
\* data.confidence && data.confidence.ensemble, else the 90 set before
confidenceOf(conf) ==
    IF conf.present THEN NumberOr(conf.avg, DefaultConfidence) ELSE DefaultConfidence

\* the map callback over data.prediction_vs_actual
normalizePva(r) ==
    [date |-> r.date,
     predicted |-> ToNumber(r.predicted),
     actual |-> IF Nullish(r.actual) THEN Null
                ELSE IF ToNumber(r.actual).nan THEN Str
                ELSE Num(ToNumber(r.actual).v)]

\* the filter callback r => r.date && !Number.isNaN(r.predicted)
keepPva(r) == r.date # 0 /\ ~r.predicted.nan

pvaThrows(pva) == \E i \in 1..Len(pva.a) : pva.a[i].isNull

pvaOf(pva) ==
    [k |-> "arr",
     a |-> SelectSeq([i \in 1..Len(pva.a) |-> normalizePva(pva.a[i])], keepPva)]

\* processLoadedData(data) on the application fields app:
\*   app    the fields when the call returns or throws,
\*   threw  whether it raised a TypeError,
\*   used   the number of Math.random() calls made (draws[1..used])
processLoadedData(app, data, now, draws) ==
    IF data.isNull THEN [app |-> app, threw |-> TRUE, used |-> 0]
    ELSE
    LET a1 == [app EXCEPT !.currentPrice = normalizeCurrentPrice(data.current_price)]
        raw == rawHistoryOf(data)
    IN IF historyThrows(raw) THEN [app |-> a1, threw |-> TRUE, used |-> 0]
       ELSE
       LET hist == normalizeHistory(raw)
           nb == backtestDraws(hist)
           a2 == [a1 EXCEPT !.historicalData = hist,
                            !.backtestingData = processBacktestingData(hist, data, draws, 0),
                            !.modelPerformance = IF data.model_performance # 0
                                                 THEN data.model_performance ELSE @]
           preds == data.predictions
       IN IF ~preds.hasModels
          THEN [app |-> [a2 EXCEPT !.predictions =
                             generatePredictions(a2.currentPrice, now, draws, nb)],
                threw |-> FALSE, used |-> nb + PredictionDraws]
          ELSE
          LET a3 == [a2 EXCEPT !.predictions =
                        [today |-> todayOf(preds.models), week |-> <<>>,
                         confidence |-> DefaultConfidence]]
          IN IF preds.dates.k = "other"
             THEN [app |-> a3, threw |-> TRUE, used |-> nb]
             ELSE
             LET a4 == [a3 EXCEPT !.predictions.week = weekOf(preds.dates.a, preds.models),
                                  !.predictions.confidence = confidenceOf(data.confidence)]
                 pva == data.prediction_vs_actual
             IN IF pva.k # "arr" THEN [app |-> a4, threw |-> FALSE, used |-> nb]
                ELSE IF pvaThrows(pva) THEN [app |-> a4, threw |-> TRUE, used |-> nb]
                ELSE [app |-> [a4 EXCEPT !.predictionVsActual = pvaOf(pva)],
                      threw |-> FALSE, used |-> nb]

\* ------------------------------------------------------------- updateUI
\* n.toFixed(digits) as a number: n rounded to a multiple of unit
toFixed(n, unit) ==
    LET q == TruncDiv(2 * Abs(n) + unit, 2 * unit) * unit IN IF n >= 0 THEN q ELSE -q

BlankView ==
    [currentPrice |-> Undef, todayPrediction |-> Undef, confidence |-> Undef,
     mae |-> Undef, mape |-> Undef, accuracy |-> Undef]

\* x.toFixed(digits) of a number value: NaN and the infinities print as such
numToFixed(x, unit) == IF x.k = "num" THEN Num(toFixed(x.v, unit)) ELSE x

\* the figures of the demonstration branch: mae 25.5, mape 0.75, accuracy 99.25
PlaceholderMetrics == [mae |-> 2550, mape |-> 75, accuracy |-> 9925]

\* accuracy of a non-empty series: Math.max(0, 100 - avgMape)
backtestAccuracy(backtestingData) ==
    LET avgMape == jsDiv(SumField(backtestingData, "errorPercent"),
                         Num(Len(backtestingData)), 1)
    IN jsMax0(jsAdd(Num(100 * 100), jsNeg(avgMape)))

\* updateBacktestingMetrics() taking the demonstration branch always
updateBacktestingMetrics_alwaysPlaceholder(backtestingData, dom, view) ==
    IF ~dom THEN [view |-> view, threw |-> FALSE]
    ELSE [view |-> [view EXCEPT !.mae = Num(toFixed(PlaceholderMetrics.mae, 10)),
                                !.mape = Num(toFixed(PlaceholderMetrics.mape, 1)),
                                !.accuracy = Num(toFixed(PlaceholderMetrics.accuracy, 10))],
          threw |-> FALSE]

\* updateBacktestingMetrics(): the three figures written to the page;
\* lastData.mae.toFixed and lastData.mape.toFixed raise a TypeError on
\* a value that is not a number, after the figures before them were written
updateBacktestingMetrics(backtestingData, dom, view) ==
    IF ~dom THEN [view |-> view, threw |-> FALSE]
    ELSE IF Len(backtestingData) = 0
    THEN [view |-> [view EXCEPT !.mae = Num(toFixed(PlaceholderMetrics.mae, 10)),
                                !.mape = Num(toFixed(PlaceholderMetrics.mape, 1)),
                                !.accuracy = Num(toFixed(PlaceholderMetrics.accuracy, 10))],
          threw |-> FALSE]
    ELSE LET lastData == backtestingData[Len(backtestingData)]
             v1 == [view EXCEPT !.mae = numToFixed(lastData.mae, 10)]
             v2 == [v1 EXCEPT !.mape = numToFixed(lastData.mape, 1)]
         IN IF ~IsNumber(lastData.mae) THEN [view |-> view, threw |-> TRUE]
            ELSE IF ~IsNumber(lastData.mape) THEN [view |-> v1, threw |-> TRUE]
            ELSE [view |-> [v2 EXCEPT !.accuracy =
                                numToFixed(backtestAccuracy(backtestingData), 10)],
                  threw |-> FALSE]

\* updateUI(): view is what the page shows afterwards, threw whether a
\* TypeError was raised (prediction.toFixed of undefined when the model
\* "ensemble" is missing, this.predictions.week[6].price of undefined when
\* the week series has fewer than 7 entries); dom says whether the page
\* has the elements the code looks up
updateUI(app, dom, view) ==
    LET v1 == IF dom THEN [view EXCEPT !.currentPrice = Num(toFixed(app.currentPrice, 1))]
              ELSE view
        noEnsemble == "ensemble" \notin DOMAIN app.predictions.today
        v2 == IF dom /\ ~noEnsemble
              THEN [v1 EXCEPT !.todayPrediction =
                                  Num(toFixed(app.predictions.today["ensemble"], 1))]
              ELSE v1
        v3 == IF dom
              THEN [v2 EXCEPT !.confidence = Num(toFixed(app.predictions.confidence, 100))]
              ELSE v2
        m == updateBacktestingMetrics(app.backtestingData, dom, v3)
    IN IF dom /\ noEnsemble THEN [view |-> v1, threw |-> TRUE]
       ELSE IF Len(app.predictions.week) < ForecastDays THEN [view |-> v3, threw |-> TRUE]
       ELSE m

\* --------------------------------------------------------------- charts
NoPriceChart == [exists |-> FALSE, window |-> 0, labels |-> 0, datasets |-> <<>>]

NoComparisonChart == [exists |-> FALSE, data |-> <<>>]

\* number of Math.random() calls of one createBacktestingDataset call
datasetDraws(app, h) ==
    IF Len(app.backtestingData) = 0 /\ h > 0 THEN h - 1 ELSE 0

\* createBacktestingDataset() returning the series of the displayed
\* points without the nulls of the future
createBacktestingDataset_noFill(app, h) == h

\* length of the array createBacktestingDataset(historicalData, type)
\* returns for h displayed points: one element pushed per point in
\* either branch, then one null per entry of the week series
createBacktestingDataset(app, h) == h + Len(app.predictions.week)

\* length of the array createAccuracyAreaData(actuals, predictions)
\* returns: one element pushed per element of actuals
createAccuracyAreaData(actuals, predictions) == actuals

\* labels and the four datasets built from the displayed history (h
\* points) and the week series, by their lengths: historicalPrices,
\* createBacktestingDataset(..., 'predicted'), createAccuracyAreaData,
\* futurePredictions
priceChartData(app, h) ==
    LET f == Len(app.predictions.week)
        backtestingActuals == createBacktestingDataset(app, h)
        backtestingPredictions == createBacktestingDataset(app, h)
    IN [exists |-> TRUE, window |-> h, labels |-> h + f,
        datasets |-> <<h + f, backtestingPredictions,
                       createAccuracyAreaData(backtestingActuals, backtestingPredictions),
                       (h - 1) + 1 + f>>]

\* initPriceChart(): no chart without the canvas or without history
initPriceChart(app, dom) ==
    LET h == Len(LastN(app.historicalData, DefaultChartDays))
    IN IF ~dom \/ h = 0 THEN [chart |-> NoPriceChart, used |-> 0]
       ELSE [chart |-> priceChartData(app, h), used |-> 2 * datasetDraws(app, h)]

\* the four bars of the comparison chart: today's value of each model, or
\* currentPrice * (1 + noise) for a model without a value
comparisonData(app, draws, from) ==
    LET today == app.predictions.today
        has(k) == k \in DOMAIN today
        n1 == IF has("bi_gru") \/ has("biGRU") THEN 0 ELSE 1
        n2 == n1 + IF has("tcn") THEN 0 ELSE 1
        n3 == n2 + IF has("transformer") THEN 0 ELSE 1
        n4 == n3 + IF has("ensemble") THEN 0 ELSE 1
        noise(i, width) == Scaled(app.currentPrice, Centered(draws[from + i], width))
    IN [data |-> << IF has("bi_gru") THEN today["bi_gru"]
                    ELSE IF has("biGRU") THEN today["biGRU"] ELSE noise(n1, 1000),
                    IF has("tcn") THEN today["tcn"] ELSE noise(n2, 1000),
                    IF has("transformer") THEN today["transformer"] ELSE noise(n3, 1000),
                    IF has("ensemble") THEN today["ensemble"] ELSE noise(n4, 800) >>,
        used |-> n4]

\* initializeCharts(): both charts, the number of draws used and whether
\* it threw.  lib says whether the calls of the chart library succeed:
\* when "new Chart(...)" throws, initPriceChart (with a canvas and
\* history) or else initComparisonChart rethrows and no chart is stored
initializeCharts(app, dom, draws, from, lib) ==
    LET p == initPriceChart(app, dom)
        c == comparisonData(app, draws, from + p.used)
    IN IF dom /\ ~lib
       THEN [charts |-> [price |-> NoPriceChart, comparison |-> NoComparisonChart],
             used |-> IF p.chart.exists THEN p.used ELSE p.used + c.used,
             threw |-> TRUE]
       ELSE [charts |-> [price |-> p.chart,
                         comparison |-> IF dom THEN [exists |-> TRUE, data |-> c.data]
                                        ELSE NoComparisonChart],
             used |-> p.used + IF dom THEN c.used ELSE 0,
             threw |-> FALSE]

\* updateChartPeriod(days) on an existing price chart
updateChartPeriod(app, days) ==
    LET n == Len(app.historicalData)
        m == IF days < n THEN days ELSE n
        clampedDays == IF m > 1 THEN m ELSE 1
        h == Len(LastN(app.historicalData, clampedDays))
    IN [chart |-> priceChartData(app, h), used |-> 2 * datasetDraws(app, h),
        threw |-> h = 0]

\* updateCharts() ignoring the active button: always the 30 days
updateCharts_default30(app, charts, days, draws, from, lib) ==
    LET p == IF charts.price.exists THEN updateChartPeriod(app, RefreshDefaultDays)
             ELSE [chart |-> charts.price, used |-> 0, threw |-> FALSE]
        c == comparisonData(app, draws, from + p.used)
        comparison == IF charts.comparison.exists
                      THEN [exists |-> TRUE, data |-> c.data]
                      ELSE charts.comparison
    IN IF p.threw THEN [charts |-> charts, used |-> 0, threw |-> TRUE]
       ELSE IF ~lib /\ charts.price.exists
       THEN [charts |-> [charts EXCEPT !.price = p.chart], used |-> p.used,
             threw |-> TRUE]
       ELSE [charts |-> [price |-> p.chart, comparison |-> comparison],
             used |-> p.used + IF charts.comparison.exists THEN c.used ELSE 0,
             threw |-> ~lib /\ charts.comparison.exists]

\* updateCharts(): days is the period of the active button, 30 without
\* one.  When "update('none')" of the chart library throws (~lib), the
\* data of the chart being updated has been assigned already and the
\* rest of updateCharts is skipped
updateCharts(app, charts, days, draws, from, lib) ==
    LET p == IF charts.price.exists THEN updateChartPeriod(app, days)
             ELSE [chart |-> charts.price, used |-> 0, threw |-> FALSE]
        c == comparisonData(app, draws, from + p.used)
        comparison == IF charts.comparison.exists
                      THEN [exists |-> TRUE, data |-> c.data]
                      ELSE charts.comparison
    IN IF p.threw THEN [charts |-> charts, used |-> 0, threw |-> TRUE]
       ELSE IF ~lib /\ charts.price.exists
       THEN [charts |-> [charts EXCEPT !.price = p.chart], used |-> p.used,
             threw |-> TRUE]
       ELSE [charts |-> [price |-> p.chart, comparison |-> comparison],
             used |-> p.used + IF charts.comparison.exists THEN c.used ELSE 0,
             threw |-> ~lib /\ charts.comparison.exists]

\* -------------------------------------------------- simulateMarketMovement
ModelKeyOrder == <<"bi_gru", "biGRU", "tcn", "transformer", "ensemble">>

\* position of model k among the keys of today (the order of Object.keys)
keyIndex(today, k) ==
    Cardinality({i \in 1..Len(ModelKeyOrder) :
                    /\ ModelKeyOrder[i] \in DOMAIN today
                    /\ i <= (CHOOSE j \in 1..Len(ModelKeyOrder) : ModelKeyOrder[j] = k)})

\* simulateMarketMovement() without the slice(-90)
simulateMarketMovement_noCap(app, now, draws) ==
    LET price == Scaled(app.currentPrice, Centered(draws[1], 500))
        today == app.predictions.today
        nk == Cardinality(DOMAIN today)
    IN [app |-> [app EXCEPT
                    !.currentPrice = price,
                    !.predictions.today =
                        [k \in DOMAIN today |->
                            Scaled(today[k], Centered(draws[1 + keyIndex(today, k)], 300))],
                    !.historicalData =
                        Append(app.historicalData,
                               [date |-> now, price |-> price,
                                volume |-> Uniform(draws[nk + 2], 100000) + 50000])],
        used |-> nk + 2]

\* simulateMarketMovement() with the factors ten times as wide: 0.05, 0.03
simulateMarketMovement_wide(app, now, draws) ==
    LET price == Scaled(app.currentPrice, Centered(draws[1], 5000))
        today == app.predictions.today
        nk == Cardinality(DOMAIN today)
        pushed == Append(app.historicalData,
                         [date |-> now, price |-> price,
                          volume |-> Uniform(draws[nk + 2], 100000) + 50000])
    IN [app |-> [app EXCEPT
                    !.currentPrice = price,
                    !.predictions.today =
                        [k \in DOMAIN today |->
                            Scaled(today[k], Centered(draws[1 + keyIndex(today, k)], 3000))],
                    !.historicalData = IF Len(pushed) > HistoryCap
                                       THEN LastN(pushed, HistoryCap) ELSE pushed],
        used |-> nk + 2]

\* simulateMarketMovement() moving the week series with the price as well
simulateMarketMovement_week(app, now, draws) ==
    LET price == Scaled(app.currentPrice, Centered(draws[1], 500))
        today == app.predictions.today
        nk == Cardinality(DOMAIN today)
        pushed == Append(app.historicalData,
                         [date |-> now, price |-> price,
                          volume |-> Uniform(draws[nk + 2], 100000) + 50000])
    IN [app |-> [app EXCEPT
                    !.currentPrice = price,
                    !.predictions.today =
                        [k \in DOMAIN today |->
                            Scaled(today[k], Centered(draws[1 + keyIndex(today, k)], 300))],
                    !.predictions.week =
                        [i \in DOMAIN app.predictions.week |->
                            [app.predictions.week[i] EXCEPT
                                !.price = Scaled(@, Centered(draws[1], 300))]],
                    !.historicalData = IF Len(pushed) > HistoryCap
                                       THEN LastN(pushed, HistoryCap) ELSE pushed],
        used |-> nk + 2]

\* simulateMarketMovement(): draw 1 moves the price, the next draws jitter
\* the models of today in key order, the last draw is the volume
simulateMarketMovement(app, now, draws) ==
    LET price == Scaled(app.currentPrice, Centered(draws[1], 500))
        today == app.predictions.today
        nk == Cardinality(DOMAIN today)
        pushed == Append(app.historicalData,
                         [date |-> now, price |-> price,
                          volume |-> Uniform(draws[nk + 2], 100000) + 50000])
    IN [app |-> [app EXCEPT
                    !.currentPrice = price,
                    !.predictions.today =
                        [k \in DOMAIN today |->
                            Scaled(today[k], Centered(draws[1 + keyIndex(today, k)], 300))],
                    !.historicalData = IF Len(pushed) > HistoryCap
                                       THEN LastN(pushed, HistoryCap) ELSE pushed],
        used |-> nk + 2]

\* ------------------------------------------------------------ refreshData
\* refreshData without the try block: an exception of the body escapes
refreshData_noTry(app, view, charts, dom, days, now, draws, lib) ==
    LET sim == simulateMarketMovement(app, now, draws)
        ui == updateUI(sim.app, dom, view)
        uc == updateCharts(sim.app, charts, days, draws, sim.used, lib)
    IN [app |-> sim.app, view |-> ui.view,
        charts |-> IF ui.threw THEN charts ELSE uc.charts,
        used |-> sim.used + IF ui.threw THEN 0 ELSE uc.used,
        caught |-> FALSE,
        escaped |-> ui.threw \/ uc.threw]

\* refreshData(): simulateMarketMovement, updateUI and updateCharts inside
\* one try block; caught says whether the catch block ran, escaped
\* whether an exception left the function
refreshData(app, view, charts, dom, days, now, draws, lib) ==
    LET sim == simulateMarketMovement(app, now, draws)
        ui == updateUI(sim.app, dom, view)
        uc == updateCharts(sim.app, charts, days, draws, sim.used, lib)
    IN [app |-> sim.app, view |-> ui.view,
        charts |-> IF ui.threw THEN charts ELSE uc.charts,
        used |-> sim.used + IF ui.threw THEN 0 ELSE uc.used,
        caught |-> ui.threw \/ uc.threw,
        escaped |-> FALSE]

\* ------------------------------------------------------------- payloads
\* a raw historical entry; isNull marks the JSON value null
Entry(date, price, close, Close, c) ==
    [isNull |-> FALSE, date |-> date, price |-> price, close |-> close,
     Close |-> Close, c |-> c]

NullEntry == [isNull |-> TRUE, date |-> 0, price |-> Undef, close |-> Undef,
              Close |-> Undef, c |-> Undef]

Arr(a) == [k |-> "arr", a |-> a]

NoArr == [k |-> "undef", a |-> <<>>]

NotAnArray == [k |-> "other", a |-> <<>>]

RECURSIVE SeqsUpTo(_, _)
\* the sequences over S of length at most n
SeqsUpTo(S, n) ==
    IF n = 0 THEN {<<>>}
    ELSE LET shorter == SeqsUpTo(S, n - 1)
         IN shorter \cup {Append(q, x) : q \in shorter, x \in S}

\* entries of the payloads of the sources: a null entry, an entry without
\* date, entries under each field name, a negative, a zero and a
\* non-numeric price
BasicEntries ==
    { NullEntry,
      Entry(0, Num(190000), Undef, Undef, Undef),
      Entry(1, Num(190000), Undef, Undef, Undef),
      Entry(MaxPayloadDate, Undef, Num(192000), Undef, Undef),
      Entry(1, Undef, Undef, Undef, Num(-500)),
      Entry(MaxPayloadDate, Undef, Undef, Num(0), Undef),
      Entry(MaxPayloadDate, Str, Num(191000), Undef, Undef) }

Histories == SeqsUpTo(BasicEntries, MaxHistLen)

\* entries of the histories served by the sources: a null entry, a valid
\* entry, an entry of an earlier day with a negative price
SourceEntries ==
    { NullEntry,
      Entry(MaxPayloadDate, Undef, Num(192000), Undef, Undef),
      Entry(1, Undef, Undef, Undef, Num(-500)) }

SourceHistories == SeqsUpTo(SourceEntries, MaxHistLen)

\* a history longer than the window of processBacktestingData, one point
\* per day, ending the day before the page is opened
LongHistory ==
    [i \in 1..LongHistLen |->
        Entry(Today - LongHistLen + i - 1, Undef, Num(190000 + 150 * i - 400 * (i % 3)),
              Undef, Undef)]

WeekDates == [i \in 1..ForecastDays |-> Today + i]

FullModels ==
    [bi_gru |-> [i \in 1..ForecastDays |-> 193000 + 100 * i],
     tcn |-> [i \in 1..ForecastDays |-> 193300 + 100 * i],
     transformer |-> [i \in 1..ForecastDays |-> 193200 - 100 * i],
     ensemble |-> [i \in 1..ForecastDays |-> 193500 + 50 * i]]

NoEvaluation ==
    [present |-> FALSE, date |-> 0, today_actual |-> Undef, yesterday_pred |-> Undef,
     mae |-> Undef, mape |-> Undef]

\* the combined daily dataset: history, seven predictions per model
BasePayload ==
    [isNull |-> FALSE,
     current_price |-> Num(195025),
     historical_data |-> Arr(<<Entry(1, Undef, Num(190000), Undef, Undef),
                               Entry(MaxPayloadDate, Undef, Num(192000), Undef, Undef)>>),
     gold_price_data |-> NoArr,
     evaluation |-> NoEvaluation,
     model_performance |-> 0,
     predictions |-> [hasModels |-> TRUE, models |-> FullModels, dates |-> Arr(WeekDates)],
     confidence |-> [present |-> FALSE, avg |-> Undef],
     prediction_vs_actual |-> NoArr]

\* the JSON value {}
EmptyPayload ==
    [BasePayload EXCEPT !.current_price = Undef, !.historical_data = NoArr,
                        !.predictions = [hasModels |-> FALSE, models |-> <<>>,
                                         dates |-> NoArr]]

\* the JSON value null
NullPayload == [EmptyPayload EXCEPT !.isNull = TRUE]

CurrentPrices == {Undef, Null, Str, Num(0), Num(-500), Num(200100)}

Confidences == {Undef, Str, Num(0), Num(9250), Num(15000), Num(-500)}

PredictionVariants ==
    { [hasModels |-> FALSE, models |-> <<>>, dates |-> Arr(WeekDates)],
      [hasModels |-> TRUE, models |-> FullModels, dates |-> NotAnArray],
      [hasModels |-> TRUE, models |-> FullModels, dates |-> NoArr],
      [hasModels |-> TRUE, models |-> FullModels, dates |-> Arr(<<Today + 1>>)],
      [hasModels |-> TRUE, models |-> [bi_gru |-> FullModels.bi_gru],
       dates |-> Arr(WeekDates)],
      [hasModels |-> TRUE,
       models |-> [ensemble |-> [i \in 1..ForecastDays |-> IF i = 2 THEN 0 ELSE 193500],
                   tcn |-> <<>>],
       dates |-> Arr(WeekDates)] }

PvaEntry(date, predicted, actual) ==
    [isNull |-> FALSE, date |-> date, predicted |-> predicted, actual |-> actual]

PvaVariants ==
    { Arr(<<PvaEntry(1, Num(189500), Num(190000)), PvaEntry(0, Num(1), Null),
            PvaEntry(MaxPayloadDate, Str, Num(192000)),
            PvaEntry(MaxPayloadDate, Num(191500), Undef)>>),
      Arr(<<[isNull |-> TRUE, date |-> 0, predicted |-> Undef, actual |-> Undef]>>) }

Evaluation ==
    [present |-> TRUE, date |-> MaxPayloadDate, today_actual |-> Num(192000),
     yesterday_pred |-> Num(191000), mae |-> Num(1500), mape |-> Num(80)]

\* evaluation objects: complete, without the error figures, without the
\* actual price, the JSON value {}
Evaluations ==
    { Evaluation,
      [Evaluation EXCEPT !.mae = Null, !.mape = Null],
      [Evaluation EXCEPT !.today_actual = Null],
      [Evaluation EXCEPT !.date = 0, !.today_actual = Undef, !.yesterday_pred = Undef,
                         !.mae = Undef, !.mape = Undef] }

\* the JSON bodies of ./data/web_data.json, the combined daily dataset:
\* the base payload changed in one section at a time
WebPayloads ==
    {NullPayload, EmptyPayload}
    \cup {[BasePayload EXCEPT !.historical_data = Arr(h)] : h \in SourceHistories}
    \cup {[BasePayload EXCEPT !.historical_data = NoArr, !.gold_price_data = Arr(h)] :
             h \in SeqsUpTo(SourceEntries, 1)}
    \cup {[BasePayload EXCEPT !.current_price = cp] : cp \in CurrentPrices}
    \cup {[BasePayload EXCEPT !.confidence = [present |-> TRUE, avg |-> a]] :
             a \in Confidences}
    \cup {[BasePayload EXCEPT !.predictions = pr] : pr \in PredictionVariants}
    \cup {[BasePayload EXCEPT !.prediction_vs_actual = pva] : pva \in PvaVariants}
    \cup {[BasePayload EXCEPT !.evaluation = e, !.model_performance = 1] :
             e \in Evaluations}
    \cup {[BasePayload EXCEPT !.evaluation = e, !.historical_data = NoArr] :
             e \in Evaluations}
    \cup {[EmptyPayload EXCEPT !.evaluation = Evaluation],
          [BasePayload EXCEPT !.historical_data = Arr(LongHistory)]}

\* the JSON bodies of ./data/latest_forecast.json: predictions only
ForecastPayloads ==
    {NullPayload, EmptyPayload, [BasePayload EXCEPT !.historical_data = NoArr]}
    \cup {[BasePayload EXCEPT !.historical_data = NoArr, !.predictions = pr] :
             pr \in PredictionVariants}
    \cup {[BasePayload EXCEPT !.historical_data = NoArr,
                              !.confidence = [present |-> TRUE, avg |-> Num(15000)],
                              !.model_performance = 2]}

\* the JSON bodies of ./data/sample_data.json, the static sample
SamplePayloads ==
    {NullPayload, EmptyPayload, BasePayload,
     [BasePayload EXCEPT !.evaluation = Evaluation, !.model_performance = 1]}

\* the bodies that source k can return
PayloadsOf(k) ==
    CASE k = 1 -> WebPayloads
      [] k = 2 -> ForecastPayloads
      [] OTHER -> SamplePayloads

\* ----------------------------------------------------------------- state
VARIABLES
    pc,                 \* "start", "loading", "ready" (init returned), "failed" (init caught)
    attempt,            \* per source: "idle", "fetching", "reading", "failed", "loaded"
    resp,               \* per source: "none", "unavailable" (no JSON value obtained), "json"
    accepted,           \* the payload whose processLoadedData call returned
    loadedFrom,         \* index of the source that set loaded = true, 0 if none
    generated,          \* generateSampleData was called
    threw,              \* number of processLoadedData calls that raised
    currentPrice, historicalData, backtestingData, modelPerformance,
    predictions, predictionVsActual,
    charts, view, activePeriod,
    rng, clock, dom,
    overlay,            \* "none", "flex", "hiding" (timeout of hideLoading pending), "hidden"
    errorNote,          \* "none", "shown", "removed"
    timers,             \* number of setInterval timers created
    ticks,              \* refresh ticks so far
    clicks,             \* clicks on the chart buttons so far
    normOut,            \* outputs of the direct processLoadedData calls (SpecNorm)
    chartsBroken,       \* the charts have become unusable: update('none') throws
    caughtAt,           \* the ticks in which the catch block of refreshData ran
    escaped             \* number of exceptions that left refreshData

vars == <<pc, attempt, resp, accepted, loadedFrom, generated, threw, currentPrice,
          historicalData, backtestingData, modelPerformance, predictions,
          predictionVsActual, charts, view, activePeriod, rng, clock, dom, overlay,
          errorNote, timers, ticks, clicks, normOut, chartsBroken, caughtAt, escaped>>

\* the fields of the application object that the data handlers assign
App ==
    [currentPrice |-> currentPrice, historicalData |-> historicalData,
     backtestingData |-> backtestingData, modelPerformance |-> modelPerformance,
     predictions |-> predictions, predictionVsActual |-> predictionVsActual]

SetApp(a) ==
    /\ currentPrice' = a.currentPrice
    /\ historicalData' = a.historicalData
    /\ backtestingData' = a.backtestingData
    /\ modelPerformance' = a.modelPerformance
    /\ predictions' = a.predictions
    /\ predictionVsActual' = a.predictionVsActual

SourceIds == 1..NumSources

\* the constructor; the page is opened with or without the elements
Init ==
    /\ pc = "start"
    /\ attempt = [k \in SourceIds |-> "idle"]
    /\ resp = [k \in SourceIds |-> "none"]
    /\ accepted = NullPayload
    /\ loadedFrom = 0
    /\ generated = FALSE
    /\ threw = 0
    /\ currentPrice = 0
    /\ historicalData = <<>>
    /\ backtestingData = <<>>
    /\ modelPerformance = 0
    /\ predictions = [today |-> <<>>, week |-> <<>>, confidence |-> DefaultConfidence]
    /\ predictionVsActual = NoArr
    /\ charts = [price |-> NoPriceChart, comparison |-> NoComparisonChart]
    /\ view = BlankView
    /\ activePeriod = DefaultChartDays
    /\ rng \in 0..MaxSeed
    /\ clock = Today
    /\ dom \in BOOLEAN
    /\ overlay = "none"
    /\ errorNote = "none"
    /\ timers = 0
    /\ ticks = 0
    /\ clicks = 0
    /\ normOut = <<>>
    /\ chartsBroken = FALSE
    /\ caughtAt = <<>>
    /\ escaped = 0

\* loadData racing the sources: every fetch issued at once
FirstFetches_race == {1, 2, 3}

\* the sources whose fetch loadData has issued when it first suspends
FirstFetches == {1}

\* init() arming the refresh timer before it loads the data
Start_timerFirst ==
    /\ pc = "start"
    /\ pc' = "loading"
    /\ overlay' = IF dom THEN "flex" ELSE overlay
    /\ timers' = timers + 1
    /\ attempt' = [k \in SourceIds |-> IF k \in FirstFetches THEN "fetching" ELSE "idle"]
    /\ UNCHANGED <<resp, accepted, loadedFrom, generated, threw, currentPrice,
                   historicalData, backtestingData, modelPerformance, predictions,
                   predictionVsActual, charts, view, activePeriod, rng, clock, dom,
                   errorNote, ticks, clicks, normOut, chartsBroken, caughtAt, escaped>>

\* init() up to the first await of loadData: showLoading, fetch(sources[0])
Start ==
    /\ pc = "start"
    /\ pc' = "loading"
    /\ overlay' = IF dom THEN "flex" ELSE overlay
    /\ attempt' = [k \in SourceIds |-> IF k \in FirstFetches THEN "fetching" ELSE "idle"]
    /\ UNCHANGED <<resp, accepted, loadedFrom, generated, threw, currentPrice,
                   historicalData, backtestingData, modelPerformance, predictions,
                   predictionVsActual, charts, view, activePeriod, rng, clock, dom,
                   errorNote, timers, ticks, clicks, normOut, chartsBroken, caughtAt, escaped>>

\* init() whose catch block shows the error and leaves the overlay as it is
FinishInit_noHide(app, used) ==
    \E lib \in BOOLEAN :
       LET ui == updateUI(app, dom, view)
           ch == initializeCharts(app, dom, DrawsFrom(rng), used, lib)
       IN /\ SetApp(app)
          /\ view' = ui.view
          /\ overlay' = IF dom /\ ~(ui.threw \/ ch.threw) THEN "hiding" ELSE overlay
          /\ IF ui.threw \/ ch.threw
             THEN /\ pc' = "failed"
                  /\ errorNote' = "shown"
                  /\ rng' = Draw(rng, used + IF ui.threw THEN 0 ELSE ch.used)
                  /\ UNCHANGED <<charts, timers, chartsBroken>>
             ELSE /\ pc' = "ready"
                  /\ charts' = ch.charts
                  /\ timers' = timers + 1
                  /\ rng' = Draw(rng, used + ch.used)
                  /\ chartsBroken' \in IF ch.charts.price.exists \/ ch.charts.comparison.exists
                                       THEN BOOLEAN ELSE {FALSE}
                  /\ UNCHANGED errorNote

\* the rest of loadData and of init once the loop over the sources is
\* left with the fields app: updateUI, initializeCharts,
\* setupEventListeners, startDataRefresh, hideLoading, or the catch of
\* init.  Whether "new Chart(...)" succeeds (lib) and whether the charts
\* stay usable afterwards (chartsBroken) is decided by the page
FinishInit(app, used) ==
    \E lib \in BOOLEAN :
       LET ui == updateUI(app, dom, view)
           ch == initializeCharts(app, dom, DrawsFrom(rng), used, lib)
       IN /\ SetApp(app)
          /\ view' = ui.view
          /\ overlay' = IF dom THEN "hiding" ELSE overlay
          /\ IF ui.threw \/ ch.threw
             THEN /\ pc' = "failed"
                  /\ errorNote' = "shown"
                  /\ rng' = Draw(rng, used + IF ui.threw THEN 0 ELSE ch.used)
                  /\ UNCHANGED <<charts, timers, chartsBroken>>
             ELSE /\ pc' = "ready"
                  /\ charts' = ch.charts
                  /\ timers' = timers + 1
                  /\ rng' = Draw(rng, used + ch.used)
                  /\ chartsBroken' \in IF ch.charts.price.exists \/ ch.charts.comparison.exists
                                       THEN BOOLEAN ELSE {FALSE}
                  /\ UNCHANGED errorNote

\* the catch block of the loop for source k, with the fields app left by
\* the try block: the loop goes on to fetch the next source, or ends and
\* generateSampleData runs
CatchAttempt(k, app, used) ==
    IF k < NumSources
    THEN /\ attempt' = [attempt EXCEPT ![k] = "failed",
                                       ![k + 1] = IF @ = "idle" THEN "fetching" ELSE @]
         /\ SetApp(app)
         /\ rng' = Draw(rng, used)
         /\ UNCHANGED <<pc, generated, charts, view, overlay, errorNote, timers,
                        chartsBroken>>
    ELSE /\ attempt' = [attempt EXCEPT ![k] = "failed"]
         /\ generated' = TRUE
         /\ FinishInit(generateSampleData(app, clock,
                           [i \in 1..SampleDraws |-> Draw(rng, used + i)]),
                       used + SampleDraws)

\* "await fetch(url)" settles for source k: the source is unavailable (a
\* network error, or a response that is not ok: both throw inside the
\* try block and leave the same state), or the response is ok and its
\* body is then read
FetchSettles(k) ==
    /\ pc = "loading"
    /\ attempt[k] = "fetching"
    /\ \E r \in {"unavailable", "ok"} :
          IF r = "ok"
          THEN /\ attempt' = [attempt EXCEPT ![k] = "reading"]
               /\ UNCHANGED <<resp, pc, generated, currentPrice, historicalData,
                              backtestingData, modelPerformance, predictions,
                              predictionVsActual, charts, view, rng, overlay,
                              errorNote, timers, chartsBroken>>
          ELSE /\ resp' = [resp EXCEPT ![k] = r]
               /\ CatchAttempt(k, App, 0)
    /\ UNCHANGED <<accepted, loadedFrom, threw, activePeriod, clock, dom, ticks, clicks,
                   normOut, caughtAt, escaped>>

\* "await res.json()" settles for source k: a parse error, or a body that
\* is handed to processLoadedData
JsonSettles(k) ==
    /\ pc = "loading"
    /\ attempt[k] = "reading"
    /\ \/ /\ resp' = [resp EXCEPT ![k] = "unavailable"]
          /\ CatchAttempt(k, App, 0)
          /\ UNCHANGED <<accepted, loadedFrom, threw>>
       \/ \E data \in PayloadsOf(k) :
             LET r == processLoadedData(App, data, clock, DrawsFrom(rng))
             IN /\ resp' = [resp EXCEPT ![k] = "json"]
                /\ IF r.threw
                   THEN /\ threw' = threw + 1
                        /\ CatchAttempt(k, r.app, r.used)
                        /\ UNCHANGED <<accepted, loadedFrom>>
                   ELSE /\ attempt' = [attempt EXCEPT ![k] = "loaded"]
                        /\ accepted' = data
                        /\ loadedFrom' = k
                        /\ FinishInit(r.app, r.used)
                        /\ UNCHANGED <<generated, threw>>
    /\ UNCHANGED <<activePeriod, clock, dom, ticks, clicks, normOut, caughtAt, escaped>>

\* the periods of the chart buttons
Periods == {7, 30, 90}

\* one firing of the setInterval callback: refreshData().  The day may
\* have changed since the last entry was pushed.  The interval is longer
\* than the timeout of hideLoading, which has therefore fired before.
Tick ==
    /\ pc = "ready"
    /\ timers > 0
    /\ overlay # "hiding"
    /\ ticks < MaxTicks
    /\ ticks' = ticks + 1
    /\ \E adv \in {0, 1} :
          LET r == refreshData(App, view, charts, dom,
                               IF dom THEN activePeriod ELSE RefreshDefaultDays,
                               clock + adv, DrawsFrom(rng), ~chartsBroken)
          IN /\ clock' = clock + adv
             /\ SetApp(r.app)
             /\ view' = r.view
             /\ charts' = r.charts
             /\ rng' = Draw(rng, r.used)
             /\ caughtAt' = IF r.caught THEN Append(caughtAt, ticks + 1) ELSE caughtAt
             /\ escaped' = IF r.escaped THEN escaped + 1 ELSE escaped
    /\ UNCHANGED <<pc, attempt, resp, accepted, loadedFrom, generated, threw,
                   activePeriod, dom, overlay, errorNote, timers, clicks, normOut,
                   chartsBroken>>

\* a click on the chart button of period p
ClickPeriod(p) ==
    /\ pc = "ready"
    /\ dom
    /\ clicks < MaxClicks
    /\ clicks' = clicks + 1
    /\ activePeriod' = p
    /\ IF charts.price.exists
       THEN LET u == updateChartPeriod(App, p)
            IN /\ charts' = [charts EXCEPT !.price = u.chart]
               /\ rng' = Draw(rng, u.used)
       ELSE UNCHANGED <<charts, rng>>
    /\ UNCHANGED <<pc, attempt, resp, accepted, loadedFrom, generated, threw,
                   currentPrice, historicalData, backtestingData, modelPerformance,
                   predictions, predictionVsActual, view, clock, dom, overlay,
                   errorNote, timers, ticks, normOut, chartsBroken, caughtAt, escaped>>

\* the timeout set by hideLoading fires
HideOverlay ==
    /\ overlay = "hiding"
    /\ overlay' = "hidden"
    /\ UNCHANGED <<pc, attempt, resp, accepted, loadedFrom, generated, threw,
                   currentPrice, historicalData, backtestingData, modelPerformance,
                   predictions, predictionVsActual, charts, view, activePeriod, rng,
                   clock, dom, errorNote, timers, ticks, clicks, normOut, chartsBroken, caughtAt, escaped>>

\* the timeout set by showError fires
RemoveError ==
    /\ errorNote = "shown"
    /\ errorNote' = "removed"
    /\ UNCHANGED <<pc, attempt, resp, accepted, loadedFrom, generated, threw,
                   currentPrice, historicalData, backtestingData, modelPerformance,
                   predictions, predictionVsActual, charts, view, activePeriod, rng,
                   clock, dom, overlay, timers, ticks, clicks, normOut, chartsBroken, caughtAt, escaped>>

Next ==
    \/ Start
    \/ \E k \in SourceIds : FetchSettles(k)
    \/ \E k \in SourceIds : JsonSettles(k)
    \/ Tick
    \/ \E p \in Periods : ClickPeriod(p)
    \/ HideOverlay
    \/ RemoveError

Spec == Init /\ [][Next]_vars

\* ------------------------------------------- processLoadedData on its own
\* the values a price field of a raw entry can hold
FieldValues == {Undef, Null, Str, Num(0), Num(-500), Num(190000)}

\* every combination of the four price fields, for each date
RichEntries ==
    {Entry(d, p, c1, c2, c3) : d \in 0..MaxPayloadDate,
                               p \in FieldValues, c1 \in FieldValues,
                               c2 \in FieldValues, c3 \in FieldValues}

NormPayloads ==
    WebPayloads
    \cup {[BasePayload EXCEPT !.historical_data = Arr(h)] : h \in Histories}
    \cup {[BasePayload EXCEPT !.historical_data = Arr(<<e>>)] : e \in RichEntries}

\* the canonical output of one normalisation
CanonicalOutput(app) ==
    [currentPrice |-> app.currentPrice, historicalSeries |-> app.historicalData,
     todayByModel |-> app.predictions.today, weekSeries |-> app.predictions.week,
     confidence |-> app.predictions.confidence]

\* a freshly constructed application and a payload to normalise
InitNorm ==
    /\ pc = "norm"
    /\ accepted \in NormPayloads
    /\ attempt = [k \in SourceIds |-> "idle"]
    /\ resp = [k \in SourceIds |-> "none"]
    /\ loadedFrom = 0
    /\ generated = FALSE
    /\ threw = 0
    /\ currentPrice = 0
    /\ historicalData = <<>>
    /\ backtestingData = <<>>
    /\ modelPerformance = 0
    /\ predictions = [today |-> <<>>, week |-> <<>>, confidence |-> DefaultConfidence]
    /\ predictionVsActual = NoArr
    /\ charts = [price |-> NoPriceChart, comparison |-> NoComparisonChart]
    /\ view = BlankView
    /\ activePeriod = DefaultChartDays
    /\ rng \in 0..MaxSeed
    /\ clock = Today
    /\ dom = FALSE
    /\ overlay = "none"
    /\ errorNote = "none"
    /\ timers = 0
    /\ ticks = 0
    /\ clicks = 0
    /\ normOut = <<>>
    /\ chartsBroken = FALSE
    /\ caughtAt = <<>>
    /\ escaped = 0

\* one call processLoadedData(accepted); the payload is normalised twice
Normalize ==
    /\ pc = "norm"
    /\ Len(normOut) + threw < 2
    /\ LET r == processLoadedData(App, accepted, clock, DrawsFrom(rng))
       IN /\ SetApp(r.app)
          /\ rng' = Draw(rng, r.used)
          /\ threw' = IF r.threw THEN threw + 1 ELSE threw
          /\ normOut' = IF r.threw THEN normOut ELSE Append(normOut, CanonicalOutput(r.app))
    /\ UNCHANGED <<pc, attempt, resp, accepted, loadedFrom, generated, charts, view,
                   activePeriod, clock, dom, overlay, errorNote, timers, ticks, clicks,
                   chartsBroken, caughtAt, escaped>>

NextNorm == Normalize

SpecNorm == InitNorm /\ [][NextNorm]_vars

\* ================================================================ claims
LoadEnded == pc \in {"ready", "failed"}

StrictlyAscending(h) == \A i \in 1..(Len(h) - 1) : h[i].date < h[i + 1].date

\* C1: the sources are tried in the fixed order, one at a time: a source
\* is attempted only after every source before it has failed, at most one
\* fetch is in flight, and the state after the load is the normalisation
\* of the payload of the first source whose attempt succeeded.
C1_SequentialSources ==
    /\ \A k \in SourceIds :
          attempt[k] # "idle" => \A j \in 1..(k - 1) : attempt[j] = "failed"
    /\ Cardinality({k \in SourceIds : attempt[k] \in {"fetching", "reading"}}) <= 1
    /\ (loadedFrom # 0 /\ ticks = 0) =>
          /\ attempt[loadedFrom] = "loaded"
          /\ resp[loadedFrom] = "json"
          /\ \A j \in 1..(loadedFrom - 1) : attempt[j] = "failed"
          /\ accepted \in PayloadsOf(loadedFrom)
          /\ currentPrice = normalizeCurrentPrice(accepted.current_price)
          /\ historicalData = normalizeHistory(rawHistoryOf(accepted))

\* the third source is accepted after the first was unavailable and the
\* processing of the second threw
C1_Witness ==
    /\ loadedFrom = 3
    /\ resp[1] = "unavailable"
    /\ resp[2] = "json"
    /\ accepted = BasePayload
    /\ ticks = 0

\* C2: once a source has returned a 2xx response whose body parses as
\* JSON, no later source is attempted.
C2_NoAttemptAfterParsedJson ==
    \A k \in SourceIds :
        resp[k] = "json" => \A j \in (k + 1)..NumSources : attempt[j] = "idle"

\* C3: generateSampleData is invoked exactly when all three attempts
\* failed by a response that is not ok, a network error or invalid JSON,
\* and then init returns normally and no error notification is shown.
C3_GeneratorIffAllFailed ==
    LoadEnded =>
        /\ generated <=> \A k \in SourceIds : resp[k] = "unavailable"
        /\ generated => (pc = "ready" /\ errorNote = "none")

\* C4: when all three sources answer 404 the state after the load has 91
\* historical points with strictly increasing dates, 7 week entries, and
\* currentPrice is the price of the last historical point.
C4_TotalFallback ==
    (LoadEnded /\ ticks = 0 /\ \A k \in SourceIds : resp[k] = "unavailable") =>
        /\ Len(historicalData) = 91
        /\ StrictlyAscending(historicalData)
        /\ Len(predictions.week) = 7
        /\ currentPrice = historicalData[Len(historicalData)].price

C4_Witness ==
    /\ pc = "ready"
    /\ generated
    /\ ticks = 0
    /\ \A k \in SourceIds : resp[k] = "unavailable"
    /\ historicalData[91].date = clock

\* C5: after the initial load historicalSeries is strictly ascending by
\* date, without duplicate dates.
C5_HistoryStrictlyAscending ==
    LoadEnded => StrictlyAscending(historicalData)

\* C6: after the initial load every entry of historicalSeries has a date
\* and a strictly positive price.
C6_HistoryPricesPositive ==
    LoadEnded =>
        \A i \in 1..Len(historicalData) :
            historicalData[i].date # 0 /\ historicalData[i].price > 0

\* C7: processLoadedData returns without throwing for every parsed payload.
C7_ProcessLoadedDataTotal == threw = 0

\* the fields of a raw entry in resolution order
FieldOrder(e) == <<e.price, e.close, e.Close, e.c>>

\* the entry carries a number under exactly one of the four names
SingleNumericField(e) ==
    \E i \in 1..4 :
        /\ FieldOrder(e)[i].k = "num"
        /\ \A j \in (1..4) \ {i} : FieldOrder(e)[j].k = "undef"

\* the number carried by a single-field entry
SingleValue(e) == (CHOOSE x \in {FieldOrder(e)[i] : i \in 1..4} : x.k = "num").v

\* the history was normalised from a single non-null raw entry
SingleEntryNormalized ==
    /\ pc = "norm"
    /\ Len(normOut) >= 1
    /\ accepted.historical_data.k = "arr"
    /\ Len(accepted.historical_data.a) = 1
    /\ ~accepted.historical_data.a[1].isNull

\* the first field, in the order price, close, Close, c, that is neither
\* null nor undefined decides: its number is the price, and the entry is
\* dropped when that number is 0 or NaN or when the date is missing
FirstPresentFieldDecides(e) ==
    LET present == {i \in 1..4 : ~Nullish(FieldOrder(e)[i])}
        first == CHOOSE i \in present : \A j \in present : i <= j
        n == IF present = {} THEN [nan |-> TRUE, v |-> 0]
             ELSE ToNumber(FieldOrder(e)[first])
    IN IF e.date # 0 /\ ~n.nan /\ n.v # 0
       THEN /\ Len(historicalData) = 1
            /\ historicalData[1].date = e.date
            /\ historicalData[1].price = n.v
       ELSE historicalData = <<>>

\* C8 as stated: every entry with a date d and a number v under exactly
\* one of the names price, close, Close, c normalises to {date: d, price: v},
\* and with several fields the first present one decides.
C8_FieldVariantsAsStated ==
    SingleEntryNormalized =>
        LET e == accepted.historical_data.a[1]
        IN /\ (SingleNumericField(e) /\ e.date # 0) =>
                  /\ Len(historicalData) = 1
                  /\ historicalData[1].date = e.date
                  /\ historicalData[1].price = SingleValue(e)
           /\ FirstPresentFieldDecides(e)

\* C8 amended: the same for every number v other than 0; an entry whose
\* resolved price is 0 is dropped.
C8_FieldVariants ==
    SingleEntryNormalized =>
        LET e == accepted.historical_data.a[1]
        IN /\ (SingleNumericField(e) /\ e.date # 0 /\ SingleValue(e) # 0) =>
                  /\ Len(historicalData) = 1
                  /\ historicalData[1].date = e.date
                  /\ historicalData[1].price = SingleValue(e)
           /\ (SingleNumericField(e) /\ SingleValue(e) = 0) => historicalData = <<>>
           /\ FirstPresentFieldDecides(e)

\* an entry that carries its price under Close only has been normalised
C8_Witness ==
    /\ SingleEntryNormalized
    /\ accepted.historical_data.a[1] = Entry(1, Undef, Undef, Num(190000), Undef)
    /\ historicalData = <<[date |-> 1, price |-> 190000, volume |-> 0]>>

\* C9: normalising the same payload twice yields the same canonical output.
C9_Idempotent ==
    Len(normOut) = 2 => normOut[1] = normOut[2]

\* C10: the confidence of the prediction set lies in [0, 100].
C10_ConfidenceInRange ==
    0 <= predictions.confidence /\ predictions.confidence <= 100 * 100

\* a prediction set has been put into the state by an accepted payload or
\* by generateSampleData
PredictionsAssigned == loadedFrom # 0 \/ generated

\* C11: whenever a week series is present in the state (after an accepted
\* payload, generatePredictions or generateSampleData) it has exactly 7
\* entries.
C11_WeekLengthSeven ==
    PredictionsAssigned => Len(predictions.week) = ForecastDays

\* the ensemble array of the accepted payload ([] without one)
AcceptedEnsemble ==
    LET models == accepted.predictions.models
    IN IF "ensemble" \in DOMAIN models THEN models["ensemble"] ELSE <<>>

\* week is the sequence of the pairs (dates[i], ensemble[i]) for the
\* indices i of K, in index order
ZipRestrictedTo(K, dates, ensemble, week) ==
    /\ Len(week) = Cardinality(K)
    /\ \A j \in 1..Len(week) :
          LET i == CHOOSE x \in K : Cardinality({y \in K : y <= x}) = j
          IN week[j].date = dates[i] /\ week[j].price = ensemble[i]

\* a payload with predictions.models has been accepted
ModelsAccepted == loadedFrom # 0 /\ accepted.predictions.hasModels

\* C12 as stated: the week series is the zip of dates and ensemble over the
\* indices whose ensemble value is a finite number.
C12_WeekZipAsStated ==
    ModelsAccepted =>
        LET dates == accepted.predictions.dates.a
        IN ZipRestrictedTo({i \in 1..Len(dates) : i <= Len(AcceptedEnsemble)},
                           dates, AcceptedEnsemble, predictions.week)

\* C12 amended: the week series is the zip of dates and ensemble over the
\* indices whose ensemble value converts to a number other than 0 and NaN;
\* a pair is dropped exactly when its price converts to 0 or NaN.
C12_WeekZip ==
    ModelsAccepted =>
        LET dates == accepted.predictions.dates.a
        IN ZipRestrictedTo({i \in 1..Len(dates) :
                               i <= Len(AcceptedEnsemble) /\ AcceptedEnsemble[i] # 0},
                           dates, AcceptedEnsemble, predictions.week)

\* a payload whose second ensemble value is 0 has been accepted: six of
\* the seven pairs are kept, the third date follows the first
C12_Witness ==
    /\ ModelsAccepted
    /\ Len(accepted.predictions.dates.a) = ForecastDays
    /\ Len(AcceptedEnsemble) = ForecastDays
    /\ AcceptedEnsemble[2] = 0
    /\ Len(predictions.week) = ForecastDays - 1
    /\ predictions.week[2].date = accepted.predictions.dates.a[3]

C14_BacktestPassThrough ==
    (loadedFrom # 0 /\ accepted.prediction_vs_actual.k = "arr") =>
        LET expected == pvaOf(accepted.prediction_vs_actual).a
        IN /\ Len(backtestingData) = Len(expected)
           /\ \A i \in 1..Len(expected) :
                 /\ backtestingData[i].date = expected[i].date
                 /\ backtestingData[i].predicted = Num(expected[i].predicted.v)

\* C15: for an accepted payload without evaluation data and a normalised
\* history of n points the backtest series has max(0, min(n, 30) - 1)
\* records; the first point of the last-30 window yields none, and the
\* record of every later window point i has the date of point i, actual =
\* price[i], and predicted within 1% of price[i-1].
C15_SyntheticReconstruction ==
    (loadedFrom # 0 /\ ticks = 0 /\ ~accepted.evaluation.present) =>
        LET n == Len(historicalData)
            m == IF n < 30 THEN n ELSE 30
            base == n - m
        IN /\ Len(backtestingData) = IF m > 0 THEN m - 1 ELSE 0
           /\ \A k \in 1..Len(backtestingData) :
                 LET point == historicalData[base + k + 1]
                     baseline == historicalData[base + k].price
                     r == backtestingData[k]
                 IN /\ r.date = point.date
                    /\ r.actual = Num(point.price)
                    /\ r.predicted.k = "num"
                    /\ 100 * Abs(r.predicted.v - baseline) <= Abs(baseline)

\* the long history has been accepted: 29 records for the last 30 points
C15_Witness ==
    /\ loadedFrom # 0
    /\ ticks = 0
    /\ ~accepted.evaluation.present
    /\ Len(historicalData) = LongHistLen
    /\ Len(backtestingData) = 29
    /\ backtestingData[1].date = historicalData[LongHistLen - 28].date
    /\ backtestingData[1].predicted # Num(historicalData[LongHistLen - 29].price)

\* the mean of d[field] over the first k records of the backtest series
PrefixMean(field, k) ==
    jsDiv(SumField(SubSeq(backtestingData, 1, k), field), Num(k), 1)

\* C16: for every k >= 1 the mae of the k-th record of the backtest series
\* is the mean of the error fields of the records 1..k and its mape is the
\* mean of their errorPercent fields, also when the series starts with the
\* record built from the payload's evaluation data.
C16_PrefixMeans ==
    \A k \in 1..Len(backtestingData) :
        /\ backtestingData[k].mae = PrefixMean("error", k)
        /\ backtestingData[k].mape = PrefixMean("errorPercent", k)

\* C17: every record of the backtest series has error = |actual -
\* predicted| >= 0 and errorPercent = error / actual * 100, whether built
\* from evaluation data or synthetic.
C17_ErrorFields ==
    \A k \in 1..Len(backtestingData) :
        LET r == backtestingData[k]
        IN /\ r.actual.k = "num" /\ r.predicted.k = "num"
           /\ r.error.k = "num" /\ r.errorPercent.k = "num"
           /\ r.error.v = Abs(r.actual.v - r.predicted.v)
           /\ r.error.v >= 0
           /\ r.actual.v # 0
           /\ r.errorPercent.v = TruncDiv(r.error.v * 10000, r.actual.v)

\* updateUI has run to its end on a page that has the metric elements
MetricsShown == pc = "ready" /\ dom

\* C18: with a non-empty backtest series the view shows the mae and the
\* mape of the last record and accuracy = max(0, 100 - mean errorPercent
\* of the whole series), which lies in [0, 100].
C18_ExposedMetrics ==
    (MetricsShown /\ Len(backtestingData) > 0) =>
        LET lastData == backtestingData[Len(backtestingData)]
            accuracy == jsMax0(jsAdd(Num(100 * 100),
                               jsNeg(PrefixMean("errorPercent", Len(backtestingData)))))
        IN /\ view.mae = numToFixed(lastData.mae, 10)
           /\ view.mape = numToFixed(lastData.mape, 1)
           /\ view.accuracy = numToFixed(accuracy, 10)
           /\ view.accuracy.k = "num"
           /\ 0 <= view.accuracy.v /\ view.accuracy.v <= 100 * 100

\* C19: the view shows the placeholder metrics (mae 25.5, mape 0.75,
\* accuracy 99.25) when the backtest series is empty, and the figures
\* computed from the series when it is not.
C19_PlaceholderIffEmpty ==
    MetricsShown =>
        IF Len(backtestingData) = 0
        THEN /\ view.mae = Num(2550)
             /\ view.mape = Num(75)
             /\ view.accuracy = numToFixed(Num(9925), 10)
        ELSE LET lastData == backtestingData[Len(backtestingData)]
             IN /\ view.mae = numToFixed(lastData.mae, 10)
                /\ view.mape = numToFixed(lastData.mape, 1)
                /\ view.accuracy =
                      numToFixed(jsMax0(jsAdd(Num(100 * 100),
                          jsNeg(PrefixMean("errorPercent", Len(backtestingData))))), 10)

\* the synthetic data set is on the page: no backtest series, placeholder
\* figures
C19_Witness ==
    /\ MetricsShown
    /\ generated
    /\ backtestingData = <<>>
    /\ view.mae = Num(2550)
    /\ view.accuracy = Num(9930)

\* a computed series is on the page and its figures differ from the
\* placeholder
C19_WitnessComputed ==
    /\ MetricsShown
    /\ Len(backtestingData) > 0
    /\ view.mae.k = "num"
    /\ view.mae # Num(2550)

\* C20: a refresh tick appends exactly one entry, whose price is the new
\* currentPrice; afterwards the series has at most 90 entries, and when it
\* had 90 or more before the tick it has exactly 90: the newest 89 of the
\* old entries in their order, then the new entry.
C20_RefreshCap ==
    [][ticks' = ticks + 1 =>
          LET old == historicalData
              new == historicalData'
              n == Len(old)
          IN /\ Len(new) >= 1
             /\ Len(new) <= 90
             /\ new[Len(new)].price = currentPrice'
             /\ new[Len(new)].date = clock'
             /\ IF n >= 90
                THEN /\ Len(new) = 90
                     /\ SubSeq(new, 1, 89) = SubSeq(old, n - 88, n)
                ELSE /\ Len(new) = n + 1
                     /\ SubSeq(new, 1, n) = old]_vars

\* two ticks after the synthetic load of 91 points: the three oldest
\* points are gone and the newest entry carries the current price
C20_Witness ==
    /\ ticks = 2
    /\ generated
    /\ Len(historicalData) = 90
    /\ historicalData[1].date = Today - 87
    /\ historicalData[90].price = currentPrice
    /\ historicalData[89].price # historicalData[90].price

\* the dates of the points of a series
DatesOf(h) == {h[i].date : i \in 1..Len(h)}

\* C21: after a refresh tick the backtest series is recomputed from the
\* updated history: its latest record has the appended point's date and
\* price as actual, and it has no record for a point the tick dropped.
C21_RecomputedOnTick ==
    [][ticks' = ticks + 1 =>
          LET new == historicalData'
              bt == backtestingData'
          IN /\ Len(new) >= 2 =>
                   /\ Len(bt) >= 1
                   /\ bt[Len(bt)].date = new[Len(new)].date
                   /\ bt[Len(bt)].actual = Num(new[Len(new)].price)
             /\ \A k \in 1..Len(bt) :
                   bt[k].date \notin DatesOf(historicalData) \ DatesOf(new)]_vars

C23_SingleTimer ==
    [][ /\ timers' <= 1
        /\ timers' # timers =>
              /\ timers' = timers + 1
              /\ pc = "loading" /\ pc' = "ready"
              /\ loadedFrom' # 0 \/ generated'
              /\ ticks = 0
        /\ ticks' # ticks =>
              /\ ticks' = ticks + 1
              /\ timers = 1
              /\ historicalData'[Len(historicalData')].date = clock'
              /\ dom => view'.currentPrice = Num(toFixed(currentPrice', 1))
              /\ \/ Len(caughtAt') = Len(caughtAt) + 1
                 \/ charts'.comparison.exists =>
                       charts'.comparison.data[4] = predictions'.today["ensemble"]
      ]_vars

C23_Witness ==
    /\ ticks = 2
    /\ timers = 1
    /\ charts.comparison.exists
    /\ caughtAt = <<>>
    /\ Len(historicalData) > 2

\* the timeouts set by hideLoading and by showError fire once they are due
SpecFair == Spec /\ WF_vars(HideOverlay) /\ WF_vars(RemoveError)

InitFailed == pc = "failed"

C25_TickExceptionsCaught ==
    /\ escaped = 0
    /\ Len(caughtAt) <= ticks
    /\ caughtAt # <<>> =>
          /\ timers = 1
          /\ pc = "ready"
          /\ overlay # "hiding"
          /\ errorNote = "none"

\* a tick fired, and caught again, after a tick that caught an exception
C25_Witness ==
    /\ caughtAt = <<1, 2>>
    /\ ticks = 2
    /\ chartsBroken
    /\ Len(historicalData) > 2

Min(a, b) == IF a < b THEN a ELSE b

\* C26: a tick that completes redraws the price chart with the window of
\* the active period, clamped to the history it has after the tick; the
\* active period changes only by a click, never by a tick
C26_ActiveWindowRedrawn ==
    [][ /\ ticks' # ticks =>
              /\ activePeriod' = activePeriod
              /\ (charts'.price.exists /\ Len(caughtAt') = Len(caughtAt)) =>
                    charts'.price.window = Min(activePeriod, Len(historicalData'))
        /\ activePeriod' # activePeriod => clicks' = clicks + 1 /\ ticks' = ticks
      ]_vars

\* the user selected 30 days and two ticks redrew the chart with 30 of
\* the more than 30 points
C26_Witness ==
    /\ clicks = 1
    /\ activePeriod = 30
    /\ ticks = 2
    /\ caughtAt = <<>>
    /\ charts.price.exists
    /\ Len(historicalData) > 30
    /\ charts.price.window = 30

\* C27: when loadData has finished, the backtest series, the model
\* performance and the prediction-vs-actual series are those of the
\* accepted payload, or the constructor's when the generator supplied the
\* data: no failed attempt has left a value
C27_SingleSourceState ==
    (LoadEnded /\ ticks = 0) =>
        /\ loadedFrom # 0 =>
              /\ modelPerformance = accepted.model_performance
              /\ predictionVsActual =
                    IF accepted.predictions.hasModels /\ accepted.prediction_vs_actual.k = "arr"
                    THEN pvaOf(accepted.prediction_vs_actual) ELSE NoArr
              /\ \A i \in 1..Len(backtestingData) :
                    \/ backtestingData[i].date \in DatesOf(historicalData)
                    \/ accepted.evaluation.present /\ i = 1
        /\ generated =>
              /\ backtestingData = <<>>
              /\ modelPerformance = 0
              /\ predictionVsActual = NoArr

\* C28: for every payload accepted from a source, init completes: the
\* view update that ends loadData does not throw on the accepted state,
\* and unless the chart library fails the charts are set up and the
\* refresh timer is started
C28_AcceptedPayloadCompletes ==
    (loadedFrom # 0 /\ LoadEnded /\ ticks = 0) =>
        /\ ~updateUI(App, dom, BlankView).threw
        /\ pc = "ready" => timers = 1 /\ errorNote = "none"

\* C29: whenever the price chart exists, each of its four datasets has
\* as many elements as the label list, which has one label per displayed
\* historical point and one per entry of the week series
C29_DatasetsMatchLabels ==
    charts.price.exists =>
        /\ charts.price.window >= 1
        /\ charts.price.labels = charts.price.window + Len(predictions.week)
        /\ Len(charts.price.datasets) = 4
        /\ \A i \in 1..4 : charts.price.datasets[i] = charts.price.labels

\* 90 days requested, then two ticks: 90 displayed points and the week
C29_Witness ==
    /\ charts.price.exists
    /\ clicks = 1
    /\ activePeriod = 90
    /\ ticks = 2
    /\ charts.price.window = 90
    /\ charts.price.labels = 90 + ForecastDays

\* C30: a tick leaves the week series, the confidence, the
\* prediction-vs-actual series, the model performance, the backtest
\* series, the model keys of today and the points the history keeps as
\* they are, and issues no fetch: of the data only currentPrice, the
\* values of today and the history (one point pushed, the oldest points
\* dropped) change
C30_TickFrame ==
    [][ ticks' # ticks =>
           /\ predictions'.week = predictions.week
           /\ predictions'.confidence = predictions.confidence
           /\ predictionVsActual' = predictionVsActual
           /\ modelPerformance' = modelPerformance
           /\ backtestingData' = backtestingData
           /\ DOMAIN predictions'.today = DOMAIN predictions.today
           /\ \E k \in 0..(Len(historicalData) + 1 - Len(historicalData')) :
                 /\ Len(historicalData') = Len(historicalData) + 1 - k
                 /\ \A i \in 1..(Len(historicalData') - 1) :
                       historicalData'[i] = historicalData[i + k]
           /\ attempt' = attempt
           /\ resp' = resp
           /\ accepted' = accepted /\ loadedFrom' = loadedFrom /\ generated' = generated
      ]_vars

\* two ticks after a payload with a prediction-vs-actual series and a
\* model performance: both still there, the price has moved
C30_Witness ==
    /\ ticks = 2
    /\ loadedFrom # 0
    /\ accepted.evaluation.present
    /\ modelPerformance = accepted.model_performance
    /\ modelPerformance # 0
    /\ currentPrice # normalizeCurrentPrice(accepted.current_price)
    /\ Len(predictions.week) = ForecastDays

====
